---- MODULE Spec2Model ----
(***************************************************************************)
(* NFPA fire detection BOQ & layout tool (fire_design_app.py).             *)
(*                                                                         *)
(* The module models                                                       *)
(*   - the rules engine: calculate_detector_quantity and                   *)
(*     generate_detector_grid, computed in IEEE-754 binary64 arithmetic    *)
(*     exactly as CPython computes them (the room dimensions and the       *)
(*     spacings are Python floats);                                        *)
(*   - the window FireDesignApp: its two line edits, the equipment drop    *)
(*     down, the list widget, the selected_items ledger, and the two       *)
(*     handlers add_item and generate_outputs with the files they write.   *)
(*                                                                         *)
(* Decimal numerals (a text typed in a line edit, a literal of the         *)
(* equipment library) are written as a whole number of tenths: 9.1 is 91.  *)
(***************************************************************************)
EXTENDS Integers, Sequences, FiniteSets, TLC

(***************************************************************************)
(* Natural numbers of arbitrary size: little-endian sequences of limbs in  *)
(* 0 .. Base-1 without high zero limbs.  They carry the 53-bit significands*)
(* of Python floats and the 106-bit products and 56-bit quotients the      *)
(* float operations round.                                                 *)
(***************************************************************************)
LimbBits == 15
Base == 2^15

RECURSIVE BTrim(_)
BTrim(a) ==
    IF a = << >> THEN << >>
    ELSE IF a[Len(a)] = 0 THEN BTrim(SubSeq(a, 1, Len(a) - 1))
    ELSE a

RECURSIVE BFromNat(_)
BFromNat(n) ==
    IF n = 0 THEN << >> ELSE <<n % Base>> \o BFromNat(n \div Base)

RECURSIVE BToNat(_)
BToNat(a) ==
    IF a = << >> THEN 0 ELSE a[1] + Base * BToNat(Tail(a))

RECURSIVE BitLenSmall(_)
BitLenSmall(n) ==
    IF n = 0 THEN 0 ELSE 1 + BitLenSmall(n \div 2)

BBitLen(a) ==
    IF a = << >> THEN 0
    ELSE LimbBits * (Len(a) - 1) + BitLenSmall(a[Len(a)])

RECURSIVE BCmpFrom(_, _, _)
BCmpFrom(a, b, i) ==
    IF i = 0 THEN 0
    ELSE IF a[i] < b[i] THEN -1
    ELSE IF a[i] > b[i] THEN 1
    ELSE BCmpFrom(a, b, i - 1)

\* -1, 0 or 1 as a < b, a = b, a > b
BCmp(a, b) ==
    IF Len(a) < Len(b) THEN -1
    ELSE IF Len(a) > Len(b) THEN 1
    ELSE BCmpFrom(a, b, Len(a))

RECURSIVE BAddC(_, _, _)
BAddC(a, b, c) ==
    IF a = << >> /\ b = << >> THEN (IF c = 0 THEN << >> ELSE <<c>>)
    ELSE LET x == (IF a = << >> THEN 0 ELSE a[1])
                  + (IF b = << >> THEN 0 ELSE b[1]) + c
         IN  <<x % Base>> \o BAddC(IF a = << >> THEN << >> ELSE Tail(a),
                                   IF b = << >> THEN << >> ELSE Tail(b),
                                   x \div Base)

BAdd(a, b) == BAddC(a, b, 0)

RECURSIVE BSubC(_, _, _)
BSubC(a, b, c) ==
    IF a = << >> THEN << >>
    ELSE LET x == a[1] - (IF b = << >> THEN 0 ELSE b[1]) - c
         IN  <<(x + Base) % Base>>
             \o BSubC(Tail(a), IF b = << >> THEN << >> ELSE Tail(b),
                      IF x < 0 THEN 1 ELSE 0)

\* a - b, for a >= b
BSub(a, b) == BTrim(BSubC(a, b, 0))

RECURSIVE BMulSmallC(_, _, _)
BMulSmallC(a, k, c) ==
    IF a = << >> THEN (IF c = 0 THEN << >> ELSE <<c>>)
    ELSE LET x == a[1] * k + c
         IN  <<x % Base>> \o BMulSmallC(Tail(a), k, x \div Base)

\* a * k, for a limb k
BMulSmall(a, k) == IF k = 0 THEN << >> ELSE BMulSmallC(a, k, 0)

BShiftLimbs(a, n) ==
    IF a = << >> THEN << >> ELSE [i \in 1..n |-> 0] \o a

RECURSIVE BMul(_, _)
BMul(a, b) ==
    IF a = << >> \/ b = << >> THEN << >>
    ELSE BAdd(BMulSmall(a, b[1]), BShiftLimbs(BMul(a, Tail(b)), 1))

\* a * 2^n
BShl(a, n) ==
    BShiftLimbs(BMulSmall(a, 2^(n % LimbBits)), n \div LimbBits)

\* a \div 2^n
BShr(a, n) ==
    LET d == n \div LimbBits
        r == n % LimbBits
        len == Len(a) - d
    IN  IF len <= 0 THEN << >>
        ELSE BTrim([i \in 1..len |->
                (a[i + d] \div 2^r)
                + (IF i + d < Len(a)
                   THEN (a[i + d + 1] % 2^r) * 2^(LimbBits - r) ELSE 0)])

\* bit i of a (bit 0 is the least significant)
BBit(a, i) ==
    LET d == i \div LimbBits + 1
    IN  IF d > Len(a) THEN 0 ELSE (a[d] \div 2^(i % LimbBits)) % 2

\* a % 2^n /= 0
BLowNonZero(a, n) ==
    LET d == n \div LimbBits
        r == n % LimbBits
    IN  \/ \E i \in 1..d : i <= Len(a) /\ a[i] /= 0
        \/ d + 1 <= Len(a) /\ a[d + 1] % 2^r /= 0

(***************************************************************************)
(* Python floats: IEEE-754 binary64, round to nearest, ties to even.  A    *)
(* finite float is [neg, m, e] with value (-1)^neg * m * 2^e, where m is 0 *)
(* (and e = 0) or a 53-bit natural.  The inputs of the model stay far from *)
(* the overflow and subnormal ranges, so the exponent is unbounded here.   *)
(***************************************************************************)
MantBits == 53
\* the Python value None
None == [none |-> TRUE]

FloatZero == [neg |-> FALSE, m |-> << >>, e |-> 0]

IsZero(a) == a.m = << >>

\* the float [neg, q, e], or the one of half the significand and the next
\* exponent when rounding up carried q to MantBits + 1 bits
Renormalize(neg, q, e) ==
    IF BBitLen(q) > MantBits
    THEN [neg |-> neg, m |-> BShr(q, 1), e |-> e + 1]
    ELSE [neg |-> neg, m |-> q, e |-> e]

\* M with its k > 0 low bits rounded away: up if the first of them is set
\* and either more is set below it (or sticky) or the kept part is odd
RoundAway(neg, M, E, sticky, k) ==
    Renormalize(neg,
                IF /\ BBit(M, k - 1) = 1
                   /\ \/ sticky
                      \/ BLowNonZero(M, k - 1)
                      \/ BBit(M, k) = 1
                THEN BAdd(BShr(M, k), <<1>>) ELSE BShr(M, k),
                E + k)

\* M of n bits brought to MantBits bits: exactly if n <= MantBits
RoundBits(neg, M, E, sticky, n) ==
    IF n = 0 THEN FloatZero
    ELSE IF n <= MantBits
    THEN [neg |-> neg, m |-> BShl(M, MantBits - n), e |-> E - (MantBits - n)]
    ELSE RoundAway(neg, M, E, sticky, n - MantBits)

\* the float nearest to (-1)^neg * (M + t) * 2^E, where 0 < t < 1 if sticky
\* and t = 0 otherwise; with sticky, M has at least MantBits + 2 bits
RoundNearestEven(neg, M, E, sticky) ==
    RoundBits(neg, M, E, sticky, BBitLen(M))

\* float(n) for a Python int n (exact for |n| < 2^53)
int_to_float(n) ==
    RoundNearestEven(n < 0, BFromNat(IF n < 0 THEN -n ELSE n), 0, FALSE)

\* a * b
float_mul(a, b) ==
    IF IsZero(a) \/ IsZero(b) THEN FloatZero
    ELSE RoundNearestEven(a.neg /= b.neg, BMul(a.m, b.m), a.e + b.e, FALSE)

\* One long-division step in base 2^ChunkBits, for a 53-bit divisor d and a
\* partial remainder r < d: the next quotient digit floor(r * 2^ChunkBits / d)
\* and the new remainder.  The digit is estimated from the leading 15 bits
\* of d, which can overshoot by one at most, and then corrected.
ChunkBits == 11

\* the digit t and the quotient and remainder after it
DivDigit(q, R, d, t) ==
    [q |-> BAdd(BShl(q, ChunkBits), BFromNat(t)),
     r |-> BSub(R, BMulSmall(d, t))]

\* the estimate qhat of the digit, corrected
DivCorrect(q, R, d, qhat) ==
    DivDigit(q, R, d,
             IF BCmp(BMulSmall(d, qhat), R) <= 0 THEN qhat ELSE qhat - 1)

\* the digit of the shifted remainder R
DivEstimate(q, R, d) ==
    DivCorrect(q, R, d,
               BToNat(BShr(R, MantBits - LimbBits))
                   \div BToNat(BShr(d, MantBits - LimbBits)))

DivStep(qr, d) == DivEstimate(qr.q, BShl(qr.r, ChunkBits), d)

\* floor(r * 2^(ChunkBits * steps) / d) added below the quotient digits q
\* produced so far, and the final remainder, for qr = [q, r]
RECURSIVE LongDivide(_, _, _)
LongDivide(qr, d, steps) ==
    IF steps = 0 THEN qr ELSE LongDivide(DivStep(qr, d), d, steps - 1)

\* the leading quotient bit of two MantBits-bit significands, and the
\* remainder after it
FirstDigit(r, d) ==
    IF BCmp(r, d) >= 0 THEN [q |-> <<1>>, r |-> BSub(r, d)]
    ELSE [q |-> << >>, r |-> r]

\* the quotient qr.q rounded, the remainder qr.r as the sticky bit
RoundQuotient(neg, qr, E) ==
    RoundNearestEven(neg, qr.q, E, qr.r /= << >>)

\* a / b for b /= 0 (b = 0 raises ZeroDivisionError in the callers): the
\* significands' quotient to 55 or 56 bits, then rounded
float_truediv(a, b) ==
    IF IsZero(a) THEN FloatZero
    ELSE RoundQuotient(a.neg /= b.neg,
                       LongDivide(FirstDigit(a.m, b.m), b.m, 5),
                       a.e - b.e - 5 * ChunkBits)

\* -1, 0, 1 as |a| < |b|, |a| = |b|, |a| > |b|
CmpMagnitude(a, b) ==
    IF IsZero(a) THEN (IF IsZero(b) THEN 0 ELSE -1)
    ELSE IF IsZero(b) THEN 1
    ELSE IF a.e < b.e THEN -1
    ELSE IF a.e > b.e THEN 1
    ELSE BCmp(a.m, b.m)

\* a <= b
float_le(a, b) ==
    LET na == a.neg /\ ~IsZero(a)
        nb == b.neg /\ ~IsZero(b)
    IN  IF na /\ ~nb THEN TRUE
        ELSE IF ~na /\ nb THEN FALSE
        ELSE IF na THEN CmpMagnitude(a, b) >= 0
        ELSE CmpMagnitude(a, b) <= 0

\* math.ceil(a), a Python int
math_ceil(a) ==
    IF IsZero(a) THEN 0
    ELSE IF a.e >= 0
    THEN (IF a.neg THEN -1 ELSE 1) * BToNat(BShl(a.m, a.e))
    ELSE LET ip   == BToNat(BShr(a.m, -a.e))
             frac == BLowNonZero(a.m, -a.e)
         IN  IF a.neg THEN -ip
             ELSE IF frac THEN ip + 1 ELSE ip

\* the float a decimal numeral of `tenths` tenths denotes: the literal 9.1 and
\* the text "9.1" both evaluate to the float nearest to 91/10
NearestFloat(tenths) ==
    float_truediv(int_to_float(tenths), int_to_float(10))

(***************************************************************************)
(* Bounds of the model                                                     *)
(***************************************************************************)
\* the ledger holds at most MaxItems entries
MaxItems == 2
\* the rules engine is called on every room dimension of 1 .. MaxRoomTenths
\* and every spacing of 1 .. MaxSpacingTenths tenths of a metre, besides
\* the values listed in RoomTenths and SpacingTenths
MaxRoomTenths == 9
MaxSpacingTenths == 3
\* and on rooms of at most MaxCells spacings a side
MaxCells == 4

\* room dimensions the rules engine is called on: non-positive ones, small
\* ones, and those of the catalogue's spacings and of the documented scenarios
RoomTenths ==
    {-10, -1, 0} \cup (1..MaxRoomTenths) \cup {50, 91, 100, 141, 200, 273}
SpacingTenths ==
    {-91, -1, 0} \cup (1..MaxSpacingTenths) \cup {50, 91, 152, 180}

\* numerals the user types into the line edits
TypedTenths == {-10, 100, 200}

\* the numerals of the model converted once, as literals and parsed texts are
decimal_values ==
    [n \in RoomTenths \cup SpacingTenths \cup TypedTenths \cup {2} |->
        NearestFloat(n)]

decimal(tenths) == decimal_values[tenths]

\* i + 0.5 for a Python int i >= 0 (exact)
int_plus_half(i) ==
    RoundNearestEven(FALSE, BFromNat(2 * i + 1), -1, FALSE)

\* the outcome of a call: a returned value or a raised exception
Return(v) == [raised |-> "no", value |-> v]
Raise(exception) == [raised |-> exception]
NotCalled == [raised |-> "not called"]

(***************************************************************************)
(* 3. NFPA rules engine                                                    *)
(***************************************************************************)

\* calculate_detector_quantity with the room length taken twice for the area
calculate_detector_quantity_length_twice(room_length, room_width, spacing) ==
    LET area == float_mul(room_length, room_length)
        coverage_per_detector == float_mul(spacing, spacing)
    IN  IF IsZero(coverage_per_detector) THEN Raise("ZeroDivisionError")
        ELSE Return(math_ceil(float_truediv(area, coverage_per_detector)))

\* calculate_detector_quantity(room_length, room_width, spacing), on floats
calculate_detector_quantity(room_length, room_width, spacing) ==
    LET area == float_mul(room_length, room_width)
        coverage_per_detector == float_mul(spacing, spacing)
    IN  IF IsZero(coverage_per_detector) THEN Raise("ZeroDivisionError")
        ELSE Return(math_ceil(float_truediv(area, coverage_per_detector)))

\* the filter of line 106 left out: every candidate is kept
InRoomUnfiltered(x, y, room_length, room_width) == TRUE

\* the candidate (x, y) of column i and row j passes the filter of line 106
InRoom(x, y, room_length, room_width) ==
    float_le(x, room_length) /\ float_le(y, room_width)

\* (i + 0.5) * spacing for each i of range(count)
CellCenters(count, spacing) ==
    [i \in 1..count |-> float_mul(int_plus_half(i - 1), spacing)]

\* the two loops over the column centers xs and the row centers ys, columns
\* outer and rows inner, keeping the candidates that pass the filter
GridPositions(room_length, room_width, xs, ys) ==
    LET candidates == [k \in 1..(Len(xs) * Len(ys)) |->
                          <<xs[((k - 1) \div Len(ys)) + 1],
                            ys[((k - 1) % Len(ys)) + 1]>>]
        Keep(p) == InRoom(p[1], p[2], room_length, room_width)
    IN  SelectSeq(candidates, Keep)

\* generate_detector_grid(room_length, room_width, spacing), on floats
generate_detector_grid(room_length, room_width, spacing) ==
    IF IsZero(spacing) THEN Raise("ZeroDivisionError")
    ELSE Return(GridPositions(
             room_length, room_width,
             CellCenters(math_ceil(float_truediv(room_length, spacing)), spacing),
             CellCenters(math_ceil(float_truediv(room_width, spacing)), spacing)))

(***************************************************************************)
(* 2. Generic equipment library.  The float literals are evaluated when    *)
(* the module is loaded; the other sizing metrics are Python ints.         *)
(***************************************************************************)
equipment_library == <<
    [category |-> "Smoke Detection", items |-> <<
        [name |-> "Point Smoke Detector", nfpa |-> "NFPA 72",
         default_spacing_m |-> decimal(91)],
        [name |-> "Beam Smoke Detector", nfpa |-> "NFPA 72",
         default_spacing_m |-> decimal(180)] >>],
    [category |-> "Heat Detection", items |-> <<
        [name |-> "Fixed Temperature Heat Detector", nfpa |-> "NFPA 72",
         default_spacing_m |-> decimal(152)],
        [name |-> "Rate-of-Rise Heat Detector", nfpa |-> "NFPA 72",
         default_spacing_m |-> decimal(152)] >>],
    [category |-> "Flame Detection", items |-> <<
        [name |-> "UV Flame Detector", nfpa |-> "NFPA 72",
         coverage_m2 |-> 400],
        [name |-> "IR Flame Detector", nfpa |-> "NFPA 72",
         coverage_m2 |-> 600] >>],
    [category |-> "Manual Devices", items |-> <<
        [name |-> "Manual Call Point", nfpa |-> "NFPA 72",
         max_travel_distance_m |-> 61] >>],
    [category |-> "Notification", items |-> <<
        [name |-> "Sounder", nfpa |-> "NFPA 72"],
        [name |-> "Strobe", nfpa |-> "NFPA 72"] >>] >>

RECURSIVE FlattenItems(_)
FlattenItems(categories) ==
    IF categories = << >> THEN << >>
    ELSE categories[1].items \o FlattenItems(Tail(categories))

\* the user data of the drop down's entries, in the order __init__ adds them
DropdownItems == FlattenItems(equipment_library)

\* item.get(key, None)
Get(item, key) == IF key \in DOMAIN item THEN item[key] ELSE None

\* the truth value Python gives a spacing: None and 0.0 are false
Truthy(v) == v /= None /\ ~IsZero(v)

(***************************************************************************)
(* The contents of a line edit: a decimal numeral of `tenths` tenths, or a *)
(* text that is no number (the line edits start empty).                    *)
(***************************************************************************)
Numeral(tenths) == [numeric |-> TRUE, tenths |-> tenths]
EmptyText == [numeric |-> FALSE]

\* float(text)
float(text) ==
    IF text.numeric THEN Return(decimal(text.tenths)) ELSE Raise("ValueError")

Abs(n) == IF n < 0 THEN -n ELSE n

\* texts the user types into the line edits
TypedTexts == {EmptyText} \cup {Numeral(n) : n \in TypedTenths}

\* entries of the drop down the user picks: a point smoke detector, a fixed
\* temperature heat detector, and a flame detector, which has no spacing
PickedIndices == {1, 3, 5}

\* the rules engine applied once to each argument triple the window can pass
GuiDimensions == {decimal(n) : n \in TypedTenths}
DefaultSpacings(items) ==
    {items[i].default_spacing_m : i \in
        {j \in 1..Len(items) : "default_spacing_m" \in DOMAIN items[j]}}
LibrarySpacings == DefaultSpacings(DropdownItems)

quantity_values ==
    [l \in GuiDimensions, w \in GuiDimensions, s \in LibrarySpacings |->
        calculate_detector_quantity(l, w, s)]

grid_values ==
    [l \in GuiDimensions, w \in GuiDimensions, s \in LibrarySpacings |->
        generate_detector_grid(l, w, s)]

QuantityFor(length, width, spacing) == quantity_values[length, width, spacing]

GridFor(length, width, spacing) == grid_values[length, width, spacing]

VARIABLES
    \* FireDesignApp
    length_input,        \* text of the QLineEdit "Room Length (m)"
    width_input,         \* text of the QLineEdit "Room Width (m)"
    equipment_dropdown,  \* current index of the QComboBox, from 1
    list_widget,         \* the item texts of the QListWidget
    selected_items,      \* the ledger: a sequence of entries
    boq_file,            \* contents of boq.csv
    dxf_file,            \* contents of layout.dxf
    outcome,             \* how the last handler ended
    \* a direct call of the rules engine
    arg_length, arg_width, arg_spacing,  \* the arguments, in tenths
    quantity_call,       \* outcome of calculate_detector_quantity
    grid_call            \* outcome of generate_detector_grid

gui_vars == <<length_input, width_input, equipment_dropdown, list_widget,
              selected_items, boq_file, dxf_file, outcome>>
engine_vars == <<arg_length, arg_width, arg_spacing, quantity_call, grid_call>>
vars == <<gui_vars, engine_vars>>

NoFile == [exists |-> FALSE]

(***************************************************************************)
(* 4. BOQ generator                                                        *)
(***************************************************************************)
\* generate_boq writing one row per distinct device instead of one per entry
generate_boq_distinct(items) ==
    LET first(i) == \A j \in 1..(i - 1) : items[j].name /= items[i].name
        Row(entry) == <<entry.name, entry.quantity, entry.nfpa>>
        kept == SelectSeq([i \in 1..Len(items) |-> i], first)
    IN  [exists |-> TRUE,
         rows |-> << <<"Item", "Quantity", "NFPA Reference">> >>
                  \o [k \in 1..Len(kept) |-> Row(items[kept[k]])]]

generate_boq(items) ==
    [exists |-> TRUE,
     rows |-> << <<"Item", "Quantity", "NFPA Reference">> >>
              \o [i \in 1..Len(items) |->
                     <<items[i].name, items[i].quantity, items[i].nfpa>>]]

(***************************************************************************)
(* 5. Line drawing generator                                               *)
(***************************************************************************)
generate_dxf(length, width, detector_positions) ==
    [exists |-> TRUE,
     lwpolyline |-> << <<FloatZero, FloatZero>>, <<length, FloatZero>>,
                       <<length, width>>, <<FloatZero, width>>,
                       <<FloatZero, FloatZero>> >>,
     circles |-> [k \in 1..Len(detector_positions) |->
                     [center |-> detector_positions[k],
                      radius |-> decimal(2)]]]

(***************************************************************************)
(* 6. GUI                                                                  *)
(***************************************************************************)
\* FireDesignApp.__init__
GuiInit ==
    /\ length_input = EmptyText
    /\ width_input = EmptyText
    /\ equipment_dropdown = 1
    /\ list_widget = << >>
    /\ selected_items = << >>
    /\ boq_file = NoFile
    /\ dxf_file = NoFile
    /\ outcome = "none"

\* the user types into a line edit
edit_length(text) ==
    /\ length_input' = text
    /\ UNCHANGED <<width_input, equipment_dropdown, list_widget,
                   selected_items, boq_file, dxf_file, outcome>>

edit_width(text) ==
    /\ width_input' = text
    /\ UNCHANGED <<length_input, equipment_dropdown, list_widget,
                   selected_items, boq_file, dxf_file, outcome>>

\* the user picks an entry of the drop down
select_equipment(index) ==
    /\ equipment_dropdown' = index
    /\ UNCHANGED <<length_input, width_input, list_widget,
                   selected_items, boq_file, dxf_file, outcome>>

\* add_item falling back to the point detector's spacing for a device
\* that has none
NewEntryDefaultSpacing(item) ==
    [name |-> item.name,
     quantity |-> 1,
     nfpa |-> item.nfpa,
     spacing |-> IF "default_spacing_m" \in DOMAIN item
                 THEN item.default_spacing_m ELSE decimal(91)]

\* the entry add_item appends for a library item
NewEntry(item) ==
    [name |-> item.name,
     quantity |-> 1,
     nfpa |-> item.nfpa,
     spacing |-> Get(item, "default_spacing_m")]

\* FireDesignApp.add_item
add_item ==
    /\ Len(selected_items) < MaxItems
    /\ \E item \in {DropdownItems[equipment_dropdown]} :
           /\ selected_items' = Append(selected_items, NewEntry(item))
           /\ list_widget' = Append(list_widget, item.name)
    /\ outcome' = "returned"
    /\ UNCHANGED <<length_input, width_input, equipment_dropdown,
                   boq_file, dxf_file>>

\* detector_positions kept from the cycle before instead of starting empty
InitialPositionsKept ==
    IF dxf_file.exists
    THEN [k \in 1..Len(dxf_file.circles) |-> dxf_file.circles[k].center]
    ELSE << >>

\* detector_positions = [] at the start of a cycle
InitialPositions == << >>

\* what the loop body stores in det['quantity']
AssignedQuantity(det, length, width) ==
    QuantityFor(length, width, det.spacing)

\* the loop of generate_outputs from entry i on: the entries, the positions
\* collected so far and the exception that ended the loop, if any
RECURSIVE DetectorLoop(_, _, _, _, _)

\* the loop body for the detector items[i]: the grid is generated before the
\* quantity is assigned
LoopBody(items, i, positions, length, width, grid, qty) ==
    IF grid.raised /= "no"
    THEN [items |-> items, positions |-> positions, raised |-> grid.raised]
    ELSE IF qty.raised /= "no"
    THEN [items |-> items, positions |-> positions \o grid.value,
          raised |-> qty.raised]
    ELSE DetectorLoop([items EXCEPT ![i].quantity = qty.value],
                      i + 1, positions \o grid.value, length, width)

DetectorLoop(items, i, positions, length, width) ==
    IF i > Len(items)
    THEN [items |-> items, positions |-> positions, raised |-> "no"]
    ELSE IF ~Truthy(items[i].spacing)
    THEN DetectorLoop(items, i + 1, positions, length, width)
    ELSE LoopBody(items, i, positions, length, width,
                  GridFor(length, width, items[i].spacing),
                  AssignedQuantity(items[i], length, width))

\* FireDesignApp.generate_outputs
generate_outputs ==
    \E length \in {float(length_input)}, width \in {float(width_input)} :
        IF length.raised /= "no" \/ width.raised /= "no"
        THEN /\ outcome' = "ValueError"
             /\ UNCHANGED <<length_input, width_input, equipment_dropdown,
                            list_widget, selected_items, boq_file, dxf_file>>
        ELSE \E loop \in {DetectorLoop(selected_items, 1, InitialPositions,
                                       length.value, width.value)} :
                 /\ selected_items' = loop.items
                 /\ IF loop.raised /= "no"
                    THEN /\ outcome' = loop.raised
                         /\ UNCHANGED <<boq_file, dxf_file>>
                    ELSE /\ boq_file' = generate_boq(loop.items)
                         /\ dxf_file' = generate_dxf(length.value, width.value,
                                                     loop.positions)
                         /\ outcome' = "Done"
                 /\ UNCHANGED <<length_input, width_input,
                                equipment_dropdown, list_widget>>

\* no direct call of the rules engine is under way
EngineIdle ==
    /\ arg_length = 0
    /\ arg_width = 0
    /\ arg_spacing = 0
    /\ quantity_call = NotCalled
    /\ grid_call = NotCalled

Init == GuiInit /\ EngineIdle

Next ==
    \/ \E text \in TypedTexts : edit_length(text) /\ UNCHANGED engine_vars
    \/ \E text \in TypedTexts : edit_width(text) /\ UNCHANGED engine_vars
    \/ \E index \in PickedIndices :
           select_equipment(index) /\ UNCHANGED engine_vars
    \/ add_item /\ UNCHANGED engine_vars
    \/ generate_outputs /\ UNCHANGED engine_vars

Spec == Init /\ [][Next]_vars

(***************************************************************************)
(* The rules engine called directly: the arguments are drawn by EngineInit *)
(* and each function is applied to them once.                              *)
(***************************************************************************)
EngineInit ==
    /\ GuiInit
    /\ arg_length \in RoomTenths
    /\ arg_width \in RoomTenths
    /\ arg_spacing \in SpacingTenths
    /\ arg_spacing /= 0 => Abs(arg_length) <= MaxCells * Abs(arg_spacing)
    /\ arg_spacing /= 0 => Abs(arg_width) <= MaxCells * Abs(arg_spacing)
    /\ quantity_call = NotCalled
    /\ grid_call = NotCalled

call_calculate_detector_quantity ==
    /\ quantity_call = NotCalled
    /\ quantity_call' = calculate_detector_quantity(
           decimal(arg_length), decimal(arg_width), decimal(arg_spacing))
    /\ UNCHANGED <<arg_length, arg_width, arg_spacing, grid_call>>

call_generate_detector_grid ==
    /\ grid_call = NotCalled
    /\ grid_call' = generate_detector_grid(
           decimal(arg_length), decimal(arg_width), decimal(arg_spacing))
    /\ UNCHANGED <<arg_length, arg_width, arg_spacing, quantity_call>>

EngineNext ==
    \/ call_calculate_detector_quantity /\ UNCHANGED gui_vars
    \/ call_generate_detector_grid /\ UNCHANGED gui_vars

EngineSpec == EngineInit /\ [][EngineNext]_vars

(***************************************************************************)
(* Properties.  Room dimensions and spacings are compared as the decimal   *)
(* numerals the caller wrote, in exact integer arithmetic on tenths.       *)
(***************************************************************************)
\* ceil(a / b) for a >= 0 and b > 0
CeilDiv(a, b) == (a + b - 1) \div b

ValidArguments == arg_length > 0 /\ arg_width > 0 /\ arg_spacing > 0

QuantityReturned == quantity_call.raised = "no"
GridReturned == grid_call.raised = "no"

\* the two line edits hold numerals
NumericRoom == length_input.numeric /\ width_input.numeric
ValidRoom ==
    NumericRoom /\ length_input.tenths > 0 /\ width_input.tenths > 0
InvalidRoom ==
    NumericRoom /\ (length_input.tenths <= 0 \/ width_input.tenths <= 0)

\* the library item of a name (names are unique in the library)
LibraryItem(name) ==
    DropdownItems[CHOOSE i \in 1..Len(DropdownItems) :
                      DropdownItems[i].name = name]

Centers(circles) == [k \in 1..Len(circles) |-> circles[k].center]

\* C1: for room length, width and spacing all > 0,
\* calculate_detector_quantity returns exactly
\* ceil((roomLength * roomWidth) / (spacing * spacing)), an integer >= 1.
C1_QuantityIsExactCeiling ==
    (quantity_call /= NotCalled /\ ValidArguments) =>
        /\ QuantityReturned
        /\ quantity_call.value =
               CeilDiv(arg_length * arg_width, arg_spacing * arg_spacing)
        /\ quantity_call.value >= 1

\* C2: for valid input every position generate_detector_grid returns lies in
\* [0, roomLength] x [0, roomWidth]; it is the centre of a grid cell (a
\* candidate past the edge is dropped, not moved to the edge); and there are
\* at most ceil(roomLength/spacing) * ceil(roomWidth/spacing) positions.
C2_GridWithinRoom ==
    (grid_call /= NotCalled /\ ValidArguments) =>
        /\ GridReturned
        /\ LET columns == CeilDiv(arg_length, arg_spacing)
               rows    == CeilDiv(arg_width, arg_spacing)
               centres(n) == {float_mul(int_plus_half(i), decimal(arg_spacing)) :
                                 i \in 0..(n - 1)}
               column_centres == centres(columns)
               row_centres == centres(rows)
           IN  /\ Len(grid_call.value) <= columns * rows
               /\ \A k \in 1..Len(grid_call.value) :
                      LET p == grid_call.value[k]
                      IN  /\ float_le(FloatZero, p[1])
                          /\ float_le(p[1], decimal(arg_length))
                          /\ float_le(FloatZero, p[2])
                          /\ float_le(p[2], decimal(arg_width))
                          /\ p[1] \in column_centres
                          /\ p[2] \in row_centres

\* a 10 x 10 room at spacing 9.1: of the four candidates one is kept
C2_Witness ==
    /\ arg_length = 100 /\ arg_width = 100 /\ arg_spacing = 91
    /\ GridReturned
    /\ Len(grid_call.value) = 1

\* C3: generate_outputs called with a room length or width <= 0 signals an
\* InvalidGeometry failure and leaves every ledger entry as it was.
C3_InvalidGeometryIsAtomic ==
    [][(generate_outputs /\ InvalidRoom) =>
           (outcome' = "InvalidGeometry" /\ selected_items' = selected_items)]_vars

\* C4: both functions of the rules engine reject a room length or width <= 0
\* with InvalidGeometry and a spacing <= 0 with InvalidSpacing instead of
\* returning a value.
ExpectedErrors ==
    (IF arg_length <= 0 \/ arg_width <= 0 THEN {"InvalidGeometry"} ELSE {})
    \cup (IF arg_spacing <= 0 THEN {"InvalidSpacing"} ELSE {})

C4_PreconditionsRejected ==
    ~ValidArguments =>
        /\ quantity_call /= NotCalled => quantity_call.raised \in ExpectedErrors
        /\ grid_call /= NotCalled => grid_call.raised \in ExpectedErrors

\* C5: in a cycle with invalid room dimensions or an invalid spacing the
\* error is found before anything is changed: the ledger is not modified
\* and neither the BOQ nor the drawing is written.
InvalidSpacingInLedger ==
    \E i \in 1..Len(selected_items) :
        /\ selected_items[i].spacing /= None
        /\ float_le(selected_items[i].spacing, FloatZero)

C5_NoOutputForInvalidCycle ==
    [][(generate_outputs /\ (InvalidRoom \/ InvalidSpacingInLedger)) =>
           /\ boq_file' = boq_file
           /\ dxf_file' = dxf_file
           /\ selected_items' = selected_items]_vars

\* C6: generate_outputs leaves every entry of a device without a rated
\* spacing as it is, with quantity 1, and draws no position for it: the
\* positions drawn are those of the grids of the entries with a spacing, and
\* only these entries get a computed quantity.
HasRatedSpacing(entry) ==
    /\ entry.spacing /= None
    /\ "default_spacing_m" \in DOMAIN LibraryItem(entry.name)

RECURSIVE GridsOfRated(_, _, _)
GridsOfRated(entries, length, width) ==
    IF entries = << >> THEN << >>
    ELSE (IF HasRatedSpacing(entries[1])
          THEN GridFor(length, width, entries[1].spacing).value
          ELSE << >>)
         \o GridsOfRated(Tail(entries), length, width)

C6_Unrated ==
    \A i \in 1..Len(selected_items) :
        ~HasRatedSpacing(selected_items[i]) => selected_items[i].quantity = 1

C6_Step ==
    generate_outputs =>
        /\ Len(selected_items') = Len(selected_items)
        /\ \A i \in 1..Len(selected_items) :
               ~HasRatedSpacing(selected_items[i]) =>
                   selected_items'[i] = selected_items[i]
        /\ outcome' = "Done" =>
               /\ Centers(dxf_file'.circles) =
                      GridsOfRated(selected_items, float(length_input).value,
                                   float(width_input).value)
               /\ \A i \in 1..Len(selected_items) :
                      HasRatedSpacing(selected_items[i]) =>
                          selected_items'[i].quantity =
                              QuantityFor(float(length_input).value,
                                          float(width_input).value,
                                          selected_items[i].spacing).value

C6_SpacinglessEntriesUntouched == []C6_Unrated /\ [][C6_Step]_vars

\* a flame detector and a point smoke detector after a cycle for a 20 x 20
\* room: the flame detector still has quantity 1, the four positions drawn
\* are the smoke detector's
C6_Witness ==
    /\ outcome = "Done"
    /\ Len(selected_items) = 2
    /\ selected_items[1].spacing = None
    /\ selected_items[1].quantity = 1
    /\ selected_items[2].spacing = decimal(91)
    /\ selected_items[2].quantity = 5
    /\ Len(dxf_file.circles) = 4

C8_ExactMultiplesAgree ==
    (/\ QuantityReturned /\ GridReturned /\ ValidArguments
     /\ arg_length % arg_spacing = 0
     /\ arg_width % arg_spacing = 0) =>
        /\ Len(grid_call.value) =
               (arg_length \div arg_spacing) * (arg_width \div arg_spacing)
        /\ quantity_call.value = Len(grid_call.value)

\* C9: a cycle of generate_outputs that follows a cycle for the same valid
\* room dimensions and the same ledger changes neither a quantity nor the
\* positions drawn: the ledger and both files stay as the first cycle left
\* them.
AfterSameCycle ==
    /\ ValidRoom
    /\ boq_file.exists /\ dxf_file.exists
    /\ boq_file = generate_boq(selected_items)
    /\ dxf_file.lwpolyline[3] =
           <<float(length_input).value, float(width_input).value>>

C9_Idempotent ==
    [][(generate_outputs /\ AfterSameCycle) =>
           /\ selected_items' = selected_items
           /\ boq_file' = boq_file
           /\ dxf_file' = dxf_file]_vars

\* after a cycle for a 20 x 20 room with a point smoke detector: quantity 5
\* and four positions, ready for the second cycle
C9_Witness ==
    /\ outcome = "Done"
    /\ AfterSameCycle
    /\ length_input = Numeral(200) /\ width_input = Numeral(200)
    /\ Len(selected_items) >= 1
    /\ selected_items[1].spacing = decimal(91)
    /\ selected_items[1].quantity = 5
    /\ Len(dxf_file.circles) >= 4

\* C10: the ledger holds one entry per add_item call, in call order, each
\* made with quantity 1 and the name, reference and spacing of the device
\* picked, the same device as often as it was added; the BOQ has one row per
\* ledger entry in ledger order.
C10_Ledger ==
    /\ Len(selected_items) = Len(list_widget)
    /\ \A i \in 1..Len(selected_items) :
           LET entry == selected_items[i]
               item  == LibraryItem(list_widget[i])
           IN  /\ entry.name = list_widget[i]
               /\ entry.nfpa = item.nfpa
               /\ entry.spacing = Get(item, "default_spacing_m")

C10_Step ==
    /\ add_item =>
           /\ Len(selected_items') = Len(selected_items) + 1
           /\ SubSeq(selected_items', 1, Len(selected_items)) = selected_items
           /\ LET entry == selected_items'[Len(selected_items')]
                  item  == DropdownItems[equipment_dropdown]
              IN  /\ entry.quantity = 1
                  /\ entry.name = item.name
                  /\ entry.nfpa = item.nfpa
                  /\ entry.spacing = Get(item, "default_spacing_m")
    /\ (generate_outputs /\ outcome' = "Done") =>
           /\ Len(boq_file'.rows) = 1 + Len(selected_items')
           /\ \A i \in 1..Len(selected_items') :
                  boq_file'.rows[i + 1] =
                      <<selected_items'[i].name, selected_items'[i].quantity,
                        selected_items'[i].nfpa>>

C10_OneEntryPerAddOneRowPerEntry == []C10_Ledger /\ [][C10_Step]_vars

\* the same detector added twice, and a BOQ of a header and two rows
C10_Witness ==
    /\ Len(selected_items) = 2
    /\ selected_items[1].name = selected_items[2].name
    /\ boq_file.exists
    /\ Len(boq_file.rows) = 3
====
